---- MODULE Spec2Model ----
(***************************************************************************)
(* State-machine model of the Scene class (src/js/scene.js): the Three.js  *)
(* background scene with its shader uniforms, five wireframe meshes, the   *)
(* star field, the cursor trail buffer and the post-processing composer.   *)
(*                                                                         *)
(* Numbers.  Lengths, pointer coordinates and scroll progress are held in  *)
(* fixed point, Unit = 1000 steps per 1.0.  Angles are held in steps of    *)
(* 1e-5 rad, times in milliseconds.  The velocity uniform is held as a     *)
(* count of the smallest step of a double (2^-1074): in that range the     *)
(* rounding of the product by 0.95 is decided exactly by integers.         *)
(***************************************************************************)
EXTENDS Integers, Sequences, FiniteSets, TLC

\* ------------------------------------------------------------------------
\* Bounds of the model
\* ------------------------------------------------------------------------

\* update() calls explored under Spec
MaxFrames == 2

\* resize() calls explored
MaxResizes == 1

\* update() calls explored under SpecHold and SpecSweep (the trail wraps)
MaxLongFrames == 101

\* update() calls explored under SpecDecay
MaxDecayFrames == 8

\* resize() calls explored under SpecResize
MaxViewportChanges == 3

\* resize() calls explored under SpecDegenerate
MaxCollapses == 2

\* setText() calls explored on one TextScramble
MaxSetTexts == 2

\* start(), stop() and toggle() calls explored on one AudioManager
MaxAudioCalls == 8

\* frames of the animation loop and resize events explored on the page
MaxPageFrames == 4
MaxPageResizes == 2

\* ------------------------------------------------------------------------
\* Program constants
\* ------------------------------------------------------------------------

\* fixed-point steps per 1.0
Unit == 10 * 100

\* steps per 1.0 of the ray parameter in _mouseToWorld
Fine == 10 * Unit

trailLength == 100

CameraFov == 45

CameraNear == 100

CameraFar == 1000000

CameraZ == 30000

TrailPlaneZ == 5000

SentinelZ == -100000

BgPlaneZ == -50000

MaxDepth == 25000

ParticleCount == 1000

\* tan(45 deg / 2) = 0.41421356..., in Unit steps
TanHalfFov == 414

\* NDC depth of the unprojected reference point, 0.5
NdcRefZ == 500

\* a Float32Array element is coarser than a double: stored values are
\* multiples of this many fixed-point steps
Float32Step == 8

\* ------------------------------------------------------------------------
\* Inputs
\* ------------------------------------------------------------------------

\* window.innerWidth x window.innerHeight at construction and on resize
Viewports == { <<1600, 800>>, <<800, 800>> }

\* arguments of setScroll (progress, Unit steps)
ScrollArgs == { -500, 250, 1500 }

\* arguments of setMouse (normalised pointer, Unit steps)
MouseArgs == { <<500, -1000>>, <<-2000, 250>> }

\* arguments of setVelocity (multiples of 2^-1074)
VelocityArgs == { 9, -20 }

\* arguments of setVelocity under SpecDecay (multiples of 2^-1074)
DecayArgs == { 1, 9, 40, -20 }

\* sizes of a window that is collapsed in one or both directions, and one
\* that is not
CollapsedViewports == { <<800, 0>>, <<0, 600>>, <<0, 0>>, <<800, 800>> }

\* texts given to setText: none, plain, and one with a "<" before a letter
Texts == { << >>, << "a", "b" >>, << "a", "<", "b" >> }

\* what the element shows before the first setText
OldTexts == { << >>, << "b", "a" >> }

\* Math.floor(Math.random() * 30), twice for every character: the least and
\* the greatest draw
Early == << 0, 0 >>
Late == << 29, 29 >>

\* the draws of one setText: the first of the pair for the characters at
\* odd places, the second for those at even places
Draws == { << Early, Early >>, << Early, Late >> }

\* the letters of the texts
Letters == { "a", "b" }

\* the environments the page is loaded in: whether the gsap scripts (gsap
\* and its ScrollTrigger plugin, which come together) have loaded, whether
\* #loader, its counter and bar, and the #bg canvas are in the document,
\* and whether a WebGL context can be created
PageEnvironments ==
    [ gsap : BOOLEAN, loader : BOOLEAN, loaderParts : BOOLEAN,
      canvas : BOOLEAN, webgl : BOOLEAN ]

\* loadProgress.value at the ticks of the tween, in tenths
TweenValues == { 126, 500, 874, 1000 }

\* clock advance between two frames, ms
FrameDeltas == { 16, 1000 }

\* the environments a Scene is constructed in: the window size and the
\* random draws
Environments ==
    { [ size |-> <<1600, 800>>, random |-> <<0, 314159>> ],
      [ size |-> <<800, 800>>, random |-> <<100000, 0>> ] }

\* ------------------------------------------------------------------------
\* Arithmetic helpers
\* ------------------------------------------------------------------------

Abs(n) == IF n < 0 THEN -n ELSE n

Sign(n) == IF n < 0 THEN -1 ELSE IF n > 0 THEN 1 ELSE 0

\* n / d rounded to nearest, symmetric about 0 (d > 0)
RoundDiv(n, d) == Sign(n) * ((2 * Abs(n) + d) \div (2 * d))

\* quotient of two signed numbers, d # 0
Quot(n, d) == IF d < 0 THEN RoundDiv(-n, -d) ELSE RoundDiv(n, d)

\* product of two fixed-point numbers
Mul(a, b) == RoundDiv(a * b, Unit)

Min(a, b) == IF a < b THEN a ELSE b

Max(a, b) == IF a > b THEN a ELSE b

\* a clamp that forgets the lower end: Math.min(1, progress)
ClampUpper(progress) == Min(Unit, progress)

\* Math.max(0, Math.min(1, progress))
Clamp01(progress) == Max(0, Min(Unit, progress))

\* Math.sin of an angle in 1e-3 rad, result in Unit steps (Bhaskara's
\* rational approximation on each half period)
SinHalf(x) ==
    LET p == RoundDiv(x * (3142 - x), Unit)
    IN  RoundDiv(16 * p * Unit, 49348 - 4 * p)

Sin(x) ==
    LET r == x % 6284
    IN  IF r <= 3142 THEN SinHalf(r) ELSE -SinHalf(r - 3142)

\* the doubles that are not finite numbers, as values outside every range
\* the finite quantities of the model take
NaN == -2000000000
Infinity == 2000000000

\* Number.isFinite
IsFinite(v) == v # NaN /\ v # Infinity /\ v # -Infinity

\* a double stored into a Float32Array element: rounded to the coarser grid;
\* NaN and the infinities are stored as they are
Float32(v) ==
    IF IsFinite(v) THEN RoundDiv(v, Float32Step) * Float32Step ELSE v

\* a product that is cut off toward 0 instead of rounded
DecayVelocityTruncate(v) == Sign(v) * ((19 * Abs(v)) \div 20)

\* v * 0.95 in double arithmetic, v a multiple of 2^-1074: the literal 0.95
\* is the double just below 19/20, so the exact product never lies on a tie
\* from above and rounds to nearest as ceil((19|v| - 10) / 20)
DecayVelocity(v) == Sign(v) * ((19 * Abs(v) + 9) \div 20)

\* ------------------------------------------------------------------------
\* State
\* ------------------------------------------------------------------------

VARIABLES
    enabled,            \* this.enabled
    ownFields,          \* names of the properties assigned on the object
    scrollProgress,     \* this.scrollProgress
    mouseX,             \* this.mouseX
    mouseY,             \* this.mouseY
    clock,              \* this.clock: [running, elapsedTime]
    camera,             \* this.camera
    rendererSize,       \* size given to this.renderer
    composerSize,       \* size of this.composer and of its passes
    bgUniforms,         \* this.bgUniforms
    bgGeometry,         \* this.bgMesh.geometry: [id, width, height]
    geomAllocated,      \* PlaneGeometry objects created so far
    geomDisposed,       \* ids of the geometries dispose() was called on
    geometries,         \* this.geometries: the five wireframe meshes
    particles,          \* this.particles
    trail,              \* the position array of this.trailGeometry
    trailVersion,       \* times posAttr.needsUpdate was set
    renderCount,        \* calls of this.composer.render()
    lastScrollArg,      \* history: last argument of setScroll
    lastMouseArg,       \* history: last arguments of setMouse
    lastVelocityArg,    \* history: last argument of setVelocity
    updatesSinceVelocity, \* history: update() calls since setVelocity
    samples,            \* history: what each update() wrote to slot 0
    proto,              \* the prototype of the object: "Scene" or "Object"
    thrown,             \* the last call ended in an exception
    called,             \* history: names of the methods called so far
    viewports,          \* history: the window size read at construction,
                        \* then the arguments of every resize
    rendered,           \* what the last composer.render() drew
    scramble,           \* the TextScramble of the hero subtitle and its element
    audio,              \* the AudioManager and its audio graph
    page                \* the loading sequence of the page

vars == << enabled, ownFields, scrollProgress, mouseX, mouseY, clock, camera,
           rendererSize, composerSize, bgUniforms, bgGeometry, geomAllocated,
           geomDisposed, geometries, particles, trail, trailVersion,
           renderCount, lastScrollArg, lastMouseArg, lastVelocityArg,
           updatesSinceVelocity, samples, proto, thrown, called, viewports,
           rendered, scramble, audio, page >>

\* what belongs to the other components of the page, not to the Scene
pageVars == << scramble, audio, page >>

inputVars == << scrollProgress, mouseX, mouseY >>

contextVars == << camera, rendererSize, composerSize, bgGeometry,
                  geomAllocated, geomDisposed >>

frameVars == << clock, geometries, particles, trail, trailVersion,
                renderCount, samples, rendered >>

\* ------------------------------------------------------------------------
\* Construction
\* ------------------------------------------------------------------------

\* width / height of the viewport, in double arithmetic: n / 0 is Infinity
\* and 0 / 0 is NaN
Aspect(width, height) ==
    CASE height # 0 -> RoundDiv(width * Unit, height)
      [] height = 0 /\ width # 0 -> Infinity
      [] height = 0 /\ width = 0 -> NaN

\* _initCamera: PerspectiveCamera(45, aspect, 0.1, 1000) at (0, 0, 30).
\* position.set does not rebuild camera.matrixWorld: it stays the identity
\* (translation 0) until the renderer calls camera.updateMatrixWorld().
InitCamera(width, height) ==
    [ fov |-> CameraFov, aspect |-> Aspect(width, height),
      near |-> CameraNear, far |-> CameraFar,
      position |-> << 0, 0, CameraZ >>, matrixWorldZ |-> 0 ]

\* Math.tan(THREE.MathUtils.degToRad(fov) / 2), in Unit steps, for the
\* fields of view a camera of the page may have
TanHalf(fov) ==
    CASE fov = 45 -> TanHalfFov
      [] fov = 60 -> 577
      [] fov = 90 -> Unit

\* const dist = 30 + 50
BgDist == 30000 + 50000

\* const vFov = THREE.MathUtils.degToRad(45)
BgFov == 45

\* a plane sized for the distance of the camera from the origin, 30
PlaneHeightAtOrigin == Mul(2 * TanHalf(BgFov), 30000)

\* 2 * tan(vFov / 2) * dist
PlaneHeight == Mul(2 * TanHalf(BgFov), BgDist)

\* planeHeight * aspect
PlaneWidth(width, height) ==
    IF IsFinite(Aspect(width, height))
    THEN Mul(PlaneHeight, Aspect(width, height))
    ELSE Aspect(width, height)

\* new THREE.PlaneGeometry(planeWidth * 1.2, planeHeight * 1.2)
NewPlaneGeometry(id, width, height) ==
    [ id |-> id,
      width |-> IF IsFinite(PlaneWidth(width, height))
                THEN Mul(PlaneWidth(width, height), 1200)
                ELSE PlaneWidth(width, height),
      height |-> Mul(PlaneHeight, 1200) ]

\* _initBackground: the uniforms of the background shader
InitUniforms(width, height) ==
    [ time |-> 0, scroll |-> 0, mouse |-> << 0, 0 >>,
      resolution |-> << width, height >>, velocity |-> 0 ]

\* _initWireframes: base position and speed of the five meshes
WireframeDefs ==
    << [ pos |-> << -10000, 6000, -15000 >>, speed |-> 1000 ],
       [ pos |-> << 12000, -4000, -20000 >>, speed |-> 700 ],
       [ pos |-> << -6000, -8000, -12000 >>, speed |-> 500 ],
       [ pos |-> << 8000, 8000, -18000 >>, speed |-> 900 ],
       [ pos |-> << 0, -12000, -16000 >>, speed |-> 600 ] >>

\* _initWireframes: the meshes, rnd the pair of Math.random() rotations
InitWireframes(rnd) ==
    [ i \in 1..Len(WireframeDefs) |->
        [ basePosition |-> WireframeDefs[i].pos,
          speed |-> WireframeDefs[i].speed,
          position |-> WireframeDefs[i].pos,
          rotation |-> << (rnd[1] + i * rnd[2]) % 628319,
                          (rnd[2] + i * rnd[1]) % 628319, 0 >> ] ]

\* _initParticles: 1000 random points (named by the draw), no rotation yet
InitParticles(rnd) ==
    [ count |-> ParticleCount, positions |-> rnd, rotation |-> << 0, 0, 0 >> ]

\* _initCursorTrail: every slot at (0, 0, -100)
Sentinel == << 0, 0, SentinelZ >>

\* a trail that starts at the origin instead of the sentinel
InitTrailOrigin == [ k \in 1..(trailLength * 3) |-> 0 ]

\* the Float32Array is held as a sequence: element k of the array (from 0)
\* is element At(k) of the sequence
At(k) == k + 1

InitTrail ==
    [ k \in 1..(trailLength * 3) |-> Sentinel[((k - 1) % 3) + 1] ]

\* slot i (from 0) of a position array
Slot(arr, i) == << arr[At(i * 3)], arr[At(i * 3 + 1)], arr[At(i * 3 + 2)] >>

EnabledFields ==
    { "enabled", "canvas", "scrollProgress", "mouseX", "mouseY", "geometries",
      "clock", "trailLength", "renderer", "camera", "scene", "bgUniforms",
      "bgMesh", "particles", "trailGeometry", "trailMesh", "composer",
      "bloomPass" }

\* constructor(canvas) with a canvas, the window being width x height
InitEnabled(width, height, rnd) ==
    /\ enabled = TRUE
    /\ ownFields = EnabledFields
    /\ scrollProgress = 0
    /\ mouseX = 0
    /\ mouseY = 0
    /\ clock = [ running |-> FALSE, elapsedTime |-> 0 ]
    /\ camera = InitCamera(width, height)
    /\ rendererSize = << width, height >>
    /\ composerSize = << width, height >>
    /\ bgUniforms = InitUniforms(width, height)
    /\ bgGeometry = NewPlaneGeometry(1, width, height)
    /\ geomAllocated = 1
    /\ geomDisposed = {}
    /\ geometries = InitWireframes(rnd)
    /\ particles = InitParticles(rnd)
    /\ trail = InitTrail
    /\ trailVersion = 0
    /\ proto = "Scene"
    /\ viewports = << << width, height >> >>

\* the fields the constructor never assigned: nothing is allocated, a read
\* of one of them gives undefined (held here as 0 or as an empty value)
Unallocated ==
    /\ scrollProgress = 0
    /\ mouseX = 0
    /\ mouseY = 0
    /\ clock = [ running |-> FALSE, elapsedTime |-> 0 ]
    /\ camera = [ fov |-> 0, aspect |-> 0, near |-> 0, far |-> 0,
                  position |-> << 0, 0, 0 >>, matrixWorldZ |-> 0 ]
    /\ rendererSize = << 0, 0 >>
    /\ composerSize = << 0, 0 >>
    /\ bgUniforms = InitUniforms(0, 0)
    /\ bgGeometry = [ id |-> 0, width |-> 0, height |-> 0 ]
    /\ geomAllocated = 0
    /\ geomDisposed = {}
    /\ geometries = << >>
    /\ particles = [ count |-> 0, positions |-> << 0, 0 >>,
                     rotation |-> << 0, 0, 0 >> ]
    /\ trail = << >>
    /\ trailVersion = 0
    /\ viewports = << >>

\* constructor(canvas) without a canvas: only this.enabled is assigned
InitDisabled ==
    /\ enabled = FALSE
    /\ ownFields = { "enabled" }
    /\ proto = "Scene"
    /\ Unallocated

\* nothing drawn yet
NothingRendered ==
    [ order |-> << >>, time |-> 0, scroll |-> 0, mouse |-> << 0, 0 >>,
      trailVersion |-> 0, trailHead |-> Sentinel ]

\* a text as the text nodes of an element
TextNodes(text) ==
    [ i \in 1 .. Len(text) |-> [ c |-> text[i], span |-> FALSE ] ]

\* new TextScramble(el): no frame requested; el holds the text old
IdleScramble(old) ==
    [ el |-> TextNodes(old), _frameId |-> 0, nextHandle |-> 1,
      callbacks |-> {}, anims |-> << >>, writers |-> << >> ]

\* new AudioManager(toggleButton): silent, no audio graph (0 stands for
\* null and for the empty list of sources), no teardown timer waiting
IdleAudio ==
    [ playing |-> FALSE, ctx |-> 0, masterGain |-> 0, sources |-> 0,
      gainTarget |-> 0, buttonActive |-> FALSE, timers |-> 0, created |-> 0,
      calls |-> 0, last |-> "constructor" ]

\* app.js as its module body begins, in the environment env: nothing
\* loaded, nothing started, nothing created
IdlePage(env) ==
    [ env |-> env, pc |-> "module", value |-> 0, counterText |-> 0,
      barWidth |-> 0, loaded |-> FALSE, startCalls |-> 0,
      loadedAtStart |-> FALSE, scene |-> "none", scenes |-> 0,
      scrollManagers |-> 0, frameLoops |-> 0, frames |-> 0,
      resizeListeners |-> 0, resizes |-> 0, thrown |-> FALSE ]

\* the environment in which every script has loaded and every element is
\* there
FullEnvironment ==
    [ gsap |-> TRUE, loader |-> TRUE, loaderParts |-> TRUE, canvas |-> TRUE,
      webgl |-> TRUE ]

\* the other components of the page, before any of them has acted
InitPage ==
    /\ scramble = IdleScramble(<< >>)
    /\ audio = IdleAudio
    /\ page = IdlePage(FullEnvironment)

InitHistory ==
    /\ rendered = NothingRendered
    /\ renderCount = 0
    /\ lastScrollArg = 0
    /\ lastMouseArg = << 0, 0 >>
    /\ lastVelocityArg = 0
    /\ updatesSinceVelocity = 0
    /\ samples = << >>
    /\ thrown = FALSE
    /\ called = {}

Init ==
    /\ \/ \E env \in Environments :
            InitEnabled(env.size[1], env.size[2], env.random)
       \/ InitDisabled
    /\ InitHistory
    /\ InitPage

\* the Scene as it is while another component of the page is looked at: it
\* takes no step
SceneAside == InitDisabled /\ InitHistory

\* ------------------------------------------------------------------------
\* The coordinate projector
\* ------------------------------------------------------------------------

\* distance in front of the camera of the points whose NDC depth is 0.5
\* (the inverse of the perspective depth mapping)
RefDepth(cam) ==
    RoundDiv(2 * cam.far * cam.near,
             (cam.far + cam.near) - Mul(NdcRefZ, cam.far - cam.near))

\* updateProjectionMatrix and Matrix4.invert: with an aspect of Infinity,
\* NaN or 0 the frustum bounds give a projection matrix with a NaN element
\* (-Infinity + Infinity, or 0 / 0), its determinant is NaN, which is not
\* the 0 that invert() tests for, and every element of the inverse is NaN
ProjectionInvertible(cam) == IsFinite(cam.aspect) /\ cam.aspect # 0

\* Vector3.unproject(camera): projectionMatrixInverse, then matrixWorld
Unproject(cam, ndc) ==
    LET d == RefDepth(cam)
    IN  IF ProjectionInvertible(cam)
        THEN << Mul(Mul(Mul(ndc[1], TanHalfFov), cam.aspect), d),
                Mul(Mul(ndc[2], TanHalfFov), d),
                cam.matrixWorldZ - d >>
        ELSE << NaN, NaN, NaN >>

\* _mouseToWorld(nx, ny, z) on the camera cam.  The normalisation of dir is left out: the
\* returned point does not change when dir is scaled.
_mouseToWorld(cam, nx, ny, z) ==
    LET ndc == Unproject(cam, << nx, -ny, NdcRefZ >>)
        dir == << ndc[1] - cam.position[1], ndc[2] - cam.position[2],
                  ndc[3] - cam.position[3] >>
        distToPlane == Quot((z - cam.position[3]) * Fine, dir[3])
    IN  IF IsFinite(ndc[1]) /\ IsFinite(ndc[2]) /\ IsFinite(ndc[3])
        THEN << cam.position[1] + RoundDiv(dir[1] * distToPlane, Fine),
                cam.position[2] + RoundDiv(dir[2] * distToPlane, Fine),
                cam.position[3] + RoundDiv(dir[3] * distToPlane, Fine) >>
        ELSE << NaN, NaN, NaN >>

\* ------------------------------------------------------------------------
\* The cursor trail
\* ------------------------------------------------------------------------

\* one pass of the shift loop of _updateCursorTrail: slot i <- slot i - 1
ShiftStep(arr, i) ==
    LET dst == i * 3
        src == (i - 1) * 3
    IN  [ arr EXCEPT ![At(dst)]     = arr[At(src)],
                     ![At(dst + 1)] = arr[At(src + 1)],
                     ![At(dst + 2)] = arr[At(src + 2)] ]

\* the passes i = hi, hi - 1, ..., lo of the shift loop of
\* _updateCursorTrail, in that order: the upper half of the passes, then
\* the lower half.  (The length test makes the upper half complete before
\* the lower half starts; a pass never changes the length.)
RECURSIVE ShiftPasses(_, _, _)
ShiftPasses(arr, hi, lo) ==
    IF hi < lo THEN arr
    ELSE IF hi = lo THEN ShiftStep(arr, hi)
    ELSE LET mid == (hi + lo) \div 2
             upper == ShiftPasses(arr, hi, mid + 1)
         IN  IF Len(upper) = Len(arr) THEN ShiftPasses(upper, mid, lo)
             ELSE upper

\* the loop run from the head to the tail, for (i = 1; i < count; i++):
\* every pass reads the slot the pass before has just overwritten, so
\* slot 0 is copied into every slot
ShiftLoopAscending(arr, count) ==
    [ k \in 1..Len(arr) |-> arr[((k - 1) % 3) + 1] ]

\* the loop started one slot early, for (i = count - 2; i > 0; i--)
ShiftLoopShort(arr, count) == ShiftPasses(arr, count - 2, 1)

\* for (let i = count - 1; i > 0; i--)
ShiftLoop(arr, count) == ShiftPasses(arr, count - 1, 1)

\* a trail that grows: the new position put in front, nothing dropped
_updateCursorTrailGrow(arr, cam, mx, my) ==
    LET worldPos == _mouseToWorld(cam, mx, my, TrailPlaneZ)
    IN  << Float32(worldPos[1]), Float32(worldPos[2]), Float32(worldPos[3]) >>
            \o arr

\* _updateCursorTrail: shift, then the projected pointer into slot 0
_updateCursorTrail(arr, cam, mx, my) ==
    LET shifted == ShiftLoop(arr, trailLength)
        worldPos == _mouseToWorld(cam, mx, my, TrailPlaneZ)
    IN  [ shifted EXCEPT ![At(0)] = Float32(worldPos[1]),
                         ![At(1)] = Float32(worldPos[2]),
                         ![At(2)] = Float32(worldPos[3]) ]

\* ------------------------------------------------------------------------
\* The decorative objects
\* ------------------------------------------------------------------------

\* a depth factor that does not look at the depth
DepthFactorFlat(z) == Unit

\* 1.0 - |basePosition.z| / 25.0
DepthFactor(z) == Unit - RoundDiv(Abs(z) * Unit, MaxDepth)

\* 0.8 * depthFactor
ParallaxStrength(z) == Mul(800, DepthFactor(z))

\* Math.sin(elapsed * 0.3 * speed + speed * 10) * 0.15
Bob(elapsed, speed) ==
    Mul(Sin(Mul(Mul(elapsed, 300), speed) + speed * 10), 150)

\* a pass that adds the parallax to the position the mesh has
AnimateMeshDrift(mesh, mx, my, elapsed) ==
    LET strength == ParallaxStrength(mesh.basePosition[3])
    IN  [ mesh EXCEPT
            !.rotation = << mesh.rotation[1] + mesh.speed \div 10,
                            mesh.rotation[2] + (3 * mesh.speed) \div 20,
                            mesh.rotation[3] + mesh.speed \div 20 >>,
            !.position = << mesh.position[1] + Mul(mx, strength),
                            mesh.position[2] + Mul(my, strength)
                                + Bob(elapsed, mesh.speed),
                            mesh.position[3] >> ]

\* a pass that keeps the angles within one turn
AnimateMeshWrapped(mesh, mx, my, elapsed) ==
    LET strength == ParallaxStrength(mesh.basePosition[3])
    IN  [ mesh EXCEPT
            !.rotation = << (mesh.rotation[1] + mesh.speed \div 10) % 628319,
                            (mesh.rotation[2] + (3 * mesh.speed) \div 20)
                                % 628319,
                            (mesh.rotation[3] + mesh.speed \div 20) % 628319 >>,
            !.position = << mesh.basePosition[1] + Mul(mx, strength),
                            mesh.basePosition[2] + Mul(my, strength)
                                + Bob(elapsed, mesh.speed),
                            mesh.position[3] >> ]

\* one pass of the wireframe loop of update() over one mesh
AnimateMesh(mesh, mx, my, elapsed) ==
    LET strength == ParallaxStrength(mesh.basePosition[3])
    IN  [ mesh EXCEPT
            !.rotation = << mesh.rotation[1] + mesh.speed \div 10,
                            mesh.rotation[2] + (3 * mesh.speed) \div 20,
                            mesh.rotation[3] + mesh.speed \div 20 >>,
            !.position = << mesh.basePosition[1] + Mul(mx, strength),
                            mesh.basePosition[2] + Mul(my, strength)
                                + Bob(elapsed, mesh.speed),
                            mesh.position[3] >> ]

\* a frame that also draws the point positions again and lets the field
\* turn on from where it was
RotateParticlesResample(p, elapsed) ==
    [ p EXCEPT !.positions = << p.positions[2], p.positions[1] >>,
               !.rotation = << p.rotation[1] + RoundDiv(elapsed, 2),
                               p.rotation[2] + elapsed, p.rotation[3] >> ]

\* the particle field: rotation.y = elapsed * 0.01, rotation.x = elapsed * 0.005
RotateParticles(p, elapsed) ==
    [ p EXCEPT !.rotation = << RoundDiv(elapsed, 2), elapsed, p.rotation[3] >> ]

\* ------------------------------------------------------------------------
\* Public API
\* ------------------------------------------------------------------------

\* a setScroll that writes the uniform at once
setScrollEager(progress) ==
    /\ scrollProgress' = Clamp01(progress)
    /\ bgUniforms' = [ bgUniforms EXCEPT !.scroll = Clamp01(progress) ]
    /\ ownFields' = ownFields \cup { "scrollProgress" }
    /\ lastScrollArg' = progress
    /\ called' = called \cup { "setScroll" }
    /\ thrown' = FALSE
    /\ UNCHANGED << enabled, mouseX, mouseY, contextVars, frameVars,
                    lastMouseArg, lastVelocityArg, updatesSinceVelocity,
                    proto, viewports,
                    pageVars >>

\* setScroll(progress): no enabled guard
setScroll(progress) ==
    /\ scrollProgress' = Clamp01(progress)
    /\ ownFields' = ownFields \cup { "scrollProgress" }
    /\ lastScrollArg' = progress
    /\ called' = called \cup { "setScroll" }
    /\ thrown' = FALSE
    /\ UNCHANGED << enabled, mouseX, mouseY, bgUniforms, contextVars,
                    frameVars, lastMouseArg, lastVelocityArg,
                    updatesSinceVelocity, proto, viewports,
                    pageVars >>

\* a setMouse that clamps the pointer to [-1, 1]
setMouseClamped(x, y) ==
    /\ mouseX' = Max(-Unit, Min(Unit, x))
    /\ mouseY' = Max(-Unit, Min(Unit, y))
    /\ ownFields' = ownFields \cup { "mouseX", "mouseY" }
    /\ lastMouseArg' = << x, y >>
    /\ called' = called \cup { "setMouse" }
    /\ thrown' = FALSE
    /\ UNCHANGED << enabled, scrollProgress, bgUniforms, contextVars,
                    frameVars, lastScrollArg, lastVelocityArg,
                    updatesSinceVelocity, proto, viewports,
                    pageVars >>

\* setMouse(x, y): no enabled guard
setMouse(x, y) ==
    /\ mouseX' = x
    /\ mouseY' = y
    /\ ownFields' = ownFields \cup { "mouseX", "mouseY" }
    /\ lastMouseArg' = << x, y >>
    /\ called' = called \cup { "setMouse" }
    /\ thrown' = FALSE
    /\ UNCHANGED << enabled, scrollProgress, bgUniforms, contextVars,
                    frameVars, lastScrollArg, lastVelocityArg,
                    updatesSinceVelocity, proto, viewports,
                    pageVars >>

\* a read of this.<name> for every name in names, each followed by a
\* property access, throws a TypeError when one of them was never assigned
Undefined(names) == ~(names \subseteq ownFields)

\* a setVelocity without the guard on this.enabled
setVelocityUnguarded(v) ==
    /\ IF Undefined({ "bgUniforms" })
       THEN thrown' = TRUE /\ UNCHANGED bgUniforms
       ELSE /\ bgUniforms' = [ bgUniforms EXCEPT !.velocity = v ]
            /\ thrown' = FALSE
    /\ lastVelocityArg' = v
    /\ updatesSinceVelocity' = 0
    /\ called' = called \cup { "setVelocity" }
    /\ UNCHANGED << enabled, ownFields, inputVars, contextVars, frameVars,
                    lastScrollArg, lastMouseArg, proto, viewports,
                    pageVars >>

\* a setVelocity that adds the sample to the stored velocity
setVelocityAccumulate(v) ==
    /\ IF enabled
       THEN /\ bgUniforms' = [ bgUniforms EXCEPT !.velocity = @ + v ]
            /\ thrown' = Undefined({ "bgUniforms" })
       ELSE /\ UNCHANGED bgUniforms
            /\ thrown' = FALSE
    /\ lastVelocityArg' = v
    /\ updatesSinceVelocity' = 0
    /\ called' = called \cup { "setVelocity" }
    /\ UNCHANGED << enabled, ownFields, inputVars, contextVars, frameVars,
                    lastScrollArg, lastMouseArg, proto, viewports,
                    pageVars >>

\* setVelocity(v)
setVelocity(v) ==
    /\ IF enabled
       THEN /\ bgUniforms' = [ bgUniforms EXCEPT !.velocity = v ]
            /\ thrown' = Undefined({ "bgUniforms" })
       ELSE /\ UNCHANGED bgUniforms
            /\ thrown' = FALSE
    /\ lastVelocityArg' = v
    /\ updatesSinceVelocity' = 0
    /\ called' = called \cup { "setVelocity" }
    /\ UNCHANGED << enabled, ownFields, inputVars, contextVars, frameVars,
                    lastScrollArg, lastMouseArg, proto, viewports,
                    pageVars >>

\* the order of the steps of update(): the uniforms, the wireframe loop,
\* the particle field, the cursor trail, composer.render()
FrameOrder == << "uniforms", "geometries", "particles", "trail", "render" >>

\* clock.getElapsedTime(): the first call starts the clock and returns 0,
\* a later one adds the time dt that passed since the call before
ElapsedTime(c, dt) == IF c.running THEN c.elapsedTime + dt ELSE 0

\* update() with composer.render() moved to the top of the frame: it draws
\* what the previous frame left in the uniforms and in the trail
updateRenderFirst(dt) ==
    /\ IF enabled
       THEN LET elapsed == ElapsedTime(clock, dt)
                arr == _updateCursorTrail(trail, camera, mouseX, mouseY)
            IN  /\ clock' = [ running |-> TRUE, elapsedTime |-> elapsed ]
                /\ bgUniforms' =
                      [ bgUniforms EXCEPT
                          !.time = elapsed,
                          !.scroll = scrollProgress,
                          !.mouse = << mouseX, mouseY >>,
                          !.velocity = DecayVelocity(bgUniforms.velocity) ]
                /\ geometries' =
                      [ i \in DOMAIN geometries |->
                          AnimateMesh(geometries[i], mouseX, mouseY, elapsed) ]
                /\ particles' = RotateParticles(particles, elapsed)
                /\ trail' = arr
                /\ trailVersion' = trailVersion + 1
                /\ samples' = Append(samples, Slot(trail', 0))
                \* composer.render(): the renderer brings camera.matrixWorld
                \* up to date before it draws
                /\ renderCount' = renderCount + 1
                /\ camera' = [ camera EXCEPT !.matrixWorldZ = camera.position[3] ]
                /\ updatesSinceVelocity' = updatesSinceVelocity + 1
                /\ rendered' = [ order |-> << "render" >> \o SubSeq(FrameOrder, 1, 4),
                                 time |-> bgUniforms.time,
                                 scroll |-> bgUniforms.scroll,
                                 mouse |-> bgUniforms.mouse,
                                 trailVersion |-> trailVersion,
                                 trailHead |-> Slot(trail, 0) ]
                /\ thrown' = Undefined({ "clock", "bgUniforms", "geometries",
                                         "camera", "composer" })
       ELSE /\ UNCHANGED << clock, bgUniforms, geometries, particles, trail,
                            trailVersion, samples, renderCount, camera,
                            updatesSinceVelocity, rendered >>
            /\ thrown' = FALSE
    /\ called' = called \cup { "update" }
    /\ UNCHANGED << enabled, ownFields, inputVars, rendererSize, composerSize,
                    bgGeometry, geomAllocated, geomDisposed, lastScrollArg,
                    lastMouseArg, lastVelocityArg, proto, viewports,
                    pageVars >>

\* update() with a camera that follows the pointer
updateCameraSway(dt) ==
    /\ IF enabled
       THEN LET elapsed == ElapsedTime(clock, dt)
                arr == _updateCursorTrail(trail, camera, mouseX, mouseY)
            IN  /\ clock' = [ running |-> TRUE, elapsedTime |-> elapsed ]
                /\ bgUniforms' =
                      [ bgUniforms EXCEPT
                          !.time = elapsed,
                          !.scroll = scrollProgress,
                          !.mouse = << mouseX, mouseY >>,
                          !.velocity = DecayVelocity(bgUniforms.velocity) ]
                /\ geometries' =
                      [ i \in DOMAIN geometries |->
                          AnimateMesh(geometries[i], mouseX, mouseY, elapsed) ]
                /\ particles' = RotateParticles(particles, elapsed)
                /\ trail' = arr
                /\ trailVersion' = trailVersion + 1
                /\ samples' = Append(samples, Slot(trail', 0))
                \* composer.render(): the renderer brings camera.matrixWorld
                \* up to date before it draws
                /\ renderCount' = renderCount + 1
                /\ camera' = [ camera EXCEPT
                                   !.matrixWorldZ = camera.position[3],
                                   !.position = << camera.position[1] + mouseX,
                                                   camera.position[2] + mouseY,
                                                   camera.position[3] >> ]
                /\ updatesSinceVelocity' = updatesSinceVelocity + 1
                /\ rendered' = [ order |-> FrameOrder,
                                 time |-> elapsed,
                                 scroll |-> scrollProgress,
                                 mouse |-> << mouseX, mouseY >>,
                                 trailVersion |-> trailVersion + 1,
                                 trailHead |-> Slot(trail', 0) ]
                /\ thrown' = Undefined({ "clock", "bgUniforms", "geometries",
                                         "camera", "composer" })
       ELSE /\ UNCHANGED << clock, bgUniforms, geometries, particles, trail,
                            trailVersion, samples, renderCount, camera,
                            updatesSinceVelocity, rendered >>
            /\ thrown' = FALSE
    /\ called' = called \cup { "update" }
    /\ UNCHANGED << enabled, ownFields, inputVars, rendererSize, composerSize,
                    bgGeometry, geomAllocated, geomDisposed, lastScrollArg,
                    lastMouseArg, lastVelocityArg, proto, viewports,
                    pageVars >>

\* update(), dt the time since the frame before
update(dt) ==
    /\ IF enabled
       THEN LET elapsed == ElapsedTime(clock, dt)
                arr == _updateCursorTrail(trail, camera, mouseX, mouseY)
            IN  /\ clock' = [ running |-> TRUE, elapsedTime |-> elapsed ]
                /\ bgUniforms' =
                      [ bgUniforms EXCEPT
                          !.time = elapsed,
                          !.scroll = scrollProgress,
                          !.mouse = << mouseX, mouseY >>,
                          !.velocity = DecayVelocity(bgUniforms.velocity) ]
                /\ geometries' =
                      [ i \in DOMAIN geometries |->
                          AnimateMesh(geometries[i], mouseX, mouseY, elapsed) ]
                /\ particles' = RotateParticles(particles, elapsed)
                /\ trail' = arr
                /\ trailVersion' = trailVersion + 1
                /\ samples' = Append(samples, Slot(trail', 0))
                \* composer.render(): the renderer brings camera.matrixWorld
                \* up to date before it draws
                /\ renderCount' = renderCount + 1
                /\ camera' = [ camera EXCEPT !.matrixWorldZ = camera.position[3] ]
                /\ updatesSinceVelocity' = updatesSinceVelocity + 1
                /\ rendered' = [ order |-> FrameOrder,
                                 time |-> elapsed,
                                 scroll |-> scrollProgress,
                                 mouse |-> << mouseX, mouseY >>,
                                 trailVersion |-> trailVersion + 1,
                                 trailHead |-> Slot(trail', 0) ]
                /\ thrown' = Undefined({ "clock", "bgUniforms", "geometries",
                                         "camera", "composer" })
       ELSE /\ UNCHANGED << clock, bgUniforms, geometries, particles, trail,
                            trailVersion, samples, renderCount, camera,
                            updatesSinceVelocity, rendered >>
            /\ thrown' = FALSE
    /\ called' = called \cup { "update" }
    /\ UNCHANGED << enabled, ownFields, inputVars, rendererSize, composerSize,
                    bgGeometry, geomAllocated, geomDisposed, lastScrollArg,
                    lastMouseArg, lastVelocityArg, proto, viewports,
                    pageVars >>

\* a resize that assigns the new geometry and then disposes
\* this.bgMesh.geometry, which by then is the new one
resizeDisposeAfter(width, height) ==
    /\ IF enabled
       THEN /\ camera' = [ camera EXCEPT !.aspect = Aspect(width, height) ]
            /\ rendererSize' = << width, height >>
            /\ composerSize' = << width, height >>
            /\ bgUniforms' = [ bgUniforms EXCEPT
                                 !.resolution = << width, height >> ]
            /\ geomDisposed' = geomDisposed \cup { geomAllocated + 1 }
            /\ bgGeometry' = NewPlaneGeometry(geomAllocated + 1, width, height)
            /\ geomAllocated' = geomAllocated + 1
            /\ thrown' = Undefined({ "camera", "renderer", "composer",
                                     "bgUniforms", "bgMesh" })
       ELSE /\ UNCHANGED << camera, rendererSize, composerSize, bgUniforms,
                            geomDisposed, bgGeometry, geomAllocated >>
            /\ thrown' = FALSE
    /\ called' = called \cup { "resize" }
    /\ viewports' = Append(viewports, << width, height >>)
    /\ UNCHANGED << enabled, ownFields, inputVars, frameVars, lastScrollArg,
                    lastMouseArg, lastVelocityArg, updatesSinceVelocity,
                    proto, pageVars >>

\* a resize that sizes the plane before it brings the camera up to date:
\* planeWidth = planeHeight * this.camera.aspect, the aspect of the size before
resizeStaleAspect(width, height) ==
    /\ IF enabled
       THEN /\ camera' = [ camera EXCEPT !.aspect = Aspect(width, height) ]
            /\ rendererSize' = << width, height >>
            /\ composerSize' = << width, height >>
            /\ bgUniforms' = [ bgUniforms EXCEPT
                                 !.resolution = << width, height >> ]
            /\ geomDisposed' = geomDisposed \cup { bgGeometry.id }
            /\ bgGeometry' = [ id |-> geomAllocated + 1,
                             width |-> Mul(Mul(PlaneHeight, camera.aspect), 1200),
                             height |-> Mul(PlaneHeight, 1200) ]
            /\ geomAllocated' = geomAllocated + 1
            /\ thrown' = Undefined({ "camera", "renderer", "composer",
                                     "bgUniforms", "bgMesh" })
       ELSE /\ UNCHANGED << camera, rendererSize, composerSize, bgUniforms,
                            geomDisposed, bgGeometry, geomAllocated >>
            /\ thrown' = FALSE
    /\ called' = called \cup { "resize" }
    /\ viewports' = Append(viewports, << width, height >>)
    /\ UNCHANGED << enabled, ownFields, inputVars, frameVars, lastScrollArg,
                    lastMouseArg, lastVelocityArg, updatesSinceVelocity,
                    proto, pageVars >>

\* a resize that leaves out this.composer.setSize(width, height)
resizeWithoutComposer(width, height) ==
    /\ IF enabled
       THEN /\ camera' = [ camera EXCEPT !.aspect = Aspect(width, height) ]
            /\ rendererSize' = << width, height >>
            /\ UNCHANGED composerSize
            /\ bgUniforms' = [ bgUniforms EXCEPT
                                 !.resolution = << width, height >> ]
            /\ geomDisposed' = geomDisposed \cup { bgGeometry.id }
            /\ bgGeometry' = NewPlaneGeometry(geomAllocated + 1, width, height)
            /\ geomAllocated' = geomAllocated + 1
            /\ thrown' = Undefined({ "camera", "renderer", "composer",
                                     "bgUniforms", "bgMesh" })
       ELSE /\ UNCHANGED << camera, rendererSize, composerSize, bgUniforms,
                            geomDisposed, bgGeometry, geomAllocated >>
            /\ thrown' = FALSE
    /\ called' = called \cup { "resize" }
    /\ viewports' = Append(viewports, << width, height >>)
    /\ UNCHANGED << enabled, ownFields, inputVars, frameVars, lastScrollArg,
                    lastMouseArg, lastVelocityArg, updatesSinceVelocity,
                    proto, pageVars >>

\* resize(width, height)
resize(width, height) ==
    /\ IF enabled
       THEN /\ camera' = [ camera EXCEPT !.aspect = Aspect(width, height) ]
            /\ rendererSize' = << width, height >>
            /\ composerSize' = << width, height >>
            /\ bgUniforms' = [ bgUniforms EXCEPT
                                 !.resolution = << width, height >> ]
            /\ geomDisposed' = geomDisposed \cup { bgGeometry.id }
            /\ bgGeometry' = NewPlaneGeometry(geomAllocated + 1, width, height)
            /\ geomAllocated' = geomAllocated + 1
            /\ thrown' = Undefined({ "camera", "renderer", "composer",
                                     "bgUniforms", "bgMesh" })
       ELSE /\ UNCHANGED << camera, rendererSize, composerSize, bgUniforms,
                            geomDisposed, bgGeometry, geomAllocated >>
            /\ thrown' = FALSE
    /\ called' = called \cup { "resize" }
    /\ viewports' = Append(viewports, << width, height >>)
    /\ UNCHANGED << enabled, ownFields, inputVars, frameVars, lastScrollArg,
                    lastMouseArg, lastVelocityArg, updatesSinceVelocity,
                    proto, pageVars >>

\* ------------------------------------------------------------------------
\* Specifications
\* ------------------------------------------------------------------------

\* the collaborators call the public methods in any order
Next ==
    \/ \E progress \in ScrollArgs : setScroll(progress)
    \/ \E m \in MouseArgs : setMouse(m[1], m[2])
    \/ \E v \in VelocityArgs : setVelocity(v)
    \/ renderCount < MaxFrames /\ \E dt \in FrameDeltas : update(dt)
    \/ /\ Len(viewports) <= MaxResizes
       /\ \E vp \in Viewports : resize(vp[1], vp[2])

Spec == Init /\ [][Next]_vars

\* A frame of the animation loop of the page: setMouse(cursor.x, cursor.y),
\* then update().  PointerPath(n) is where the cursor is in frame n.
PointerPath(n) == << ((n % 5) - 2) * 500, ((n % 3) - 1) * 250 >>

\* the pointer rests at (0, 0) while the frames run
NextHold ==
    \/ setMouse(0, 0)
    \/ renderCount < MaxLongFrames /\ \E dt \in FrameDeltas : update(dt)

SpecHold == Init /\ [][NextHold]_vars

\* the pointer moves along PointerPath, one sample for every frame
NextSweep ==
    \/ /\ lastMouseArg # PointerPath(renderCount)
       /\ setMouse(PointerPath(renderCount)[1], PointerPath(renderCount)[2])
    \/ /\ lastMouseArg = PointerPath(renderCount)
       /\ renderCount < MaxLongFrames
       /\ \E dt \in FrameDeltas : update(dt)

SpecSweep == Init /\ [][NextSweep]_vars

\* velocity samples arrive, then the frames run without a new one
NextDecay ==
    \/ \E v \in DecayArgs : setVelocity(v)
    \/ renderCount < MaxDecayFrames /\ \E dt \in FrameDeltas : update(dt)

SpecDecay == Init /\ [][NextDecay]_vars

\* the window is resized again and again while the frames run
NextResize ==
    \/ /\ Len(viewports) <= MaxViewportChanges
       /\ \E vp \in Viewports : resize(vp[1], vp[2])
    \/ renderCount < MaxFrames /\ \E dt \in FrameDeltas : update(dt)

SpecResize == Init /\ [][NextResize]_vars

\* the window collapses to a zero height or width (and comes back) while
\* the pointer moves and the frames run
NextDegenerate ==
    \/ \E m \in MouseArgs : setMouse(m[1], m[2])
    \/ /\ Len(viewports) <= MaxCollapses
       /\ \E vp \in CollapsedViewports : resize(vp[1], vp[2])
    \/ renderCount < MaxFrames /\ \E dt \in FrameDeltas : update(dt)

SpecDegenerate == Init /\ [][NextDegenerate]_vars

\* ------------------------------------------------------------------------
\* What the renderer shows
\* ------------------------------------------------------------------------

\* the point p lies in the view frustum of the camera (which looks along
\* -z from its position, its world matrix up to date as in every render)
InFrustum(cam, p) ==
    LET depth == cam.position[3] - p[3]
        halfHeight == Mul(depth, TanHalfFov)
        halfWidth == Mul(halfHeight, cam.aspect)
    IN  /\ depth >= cam.near
        /\ depth <= cam.far
        /\ Abs(p[2] - cam.position[2]) <= halfHeight
        /\ Abs(p[1] - cam.position[1]) <= halfWidth

\* the projection of the pointer (nx, ny) on the plane at depth z through
\* the camera as it is placed: its world matrix holding its position
Projection(cam, nx, ny, z) ==
    _mouseToWorld([ cam EXCEPT !.matrixWorldZ = cam.position[3] ], nx, ny, z)

\* a point as a Float32Array holds it
Stored(p) == << Float32(p[1]), Float32(p[2]), Float32(p[3]) >>

\* a step of update() that ran on an enabled Scene
UpdateStep == renderCount' = renderCount + 1

\* ------------------------------------------------------------------------
\* The cursor trail: capacity, order, sentinel
\* ------------------------------------------------------------------------

\* C1: on an enabled Scene the trail buffer holds exactly trailLength
\* positions (3 * trailLength numbers) in every reachable state, whatever
\* setScroll, setMouse, setVelocity, resize and update calls came before.
TrailCapacityFixed ==
    enabled => /\ Len(trail) = 3 * trailLength
               /\ DOMAIN trail = 1..(3 * trailLength)

TrailCapacityWitness ==
    /\ enabled
    /\ renderCount >= 2
    /\ geomAllocated > 1
    /\ lastMouseArg # << 0, 0 >>
    /\ lastScrollArg # 0
    /\ lastVelocityArg # 0
    /\ Len(trail) = 3 * trailLength

\* C2: every update() leaves in slot 0 the projection, on the plane z = 5
\* and as the Float32Array holds it, of the pointer last given to setMouse,
\* and in slot 1 what slot 0 held before the call.
TrailHeadIsProjection ==
    [][ UpdateStep =>
          /\ Slot(trail', 0) =
                Stored(Projection(camera, lastMouseArg[1], lastMouseArg[2],
                                  TrailPlaneZ))
          /\ Slot(trail', 1) = Slot(trail, 0) ]_vars

\* C3: the trail is ordered newest to oldest: after n updates slot i, for
\* every i below min(n, trailLength), holds what update number n - i wrote
\* to slot 0; nothing but the content of the last slot is ever lost.
TrailNewestFirst ==
    enabled =>
        /\ Len(samples) = renderCount
        /\ \A i \in 0..(Min(renderCount, trailLength) - 1) :
              Slot(trail, i) = samples[renderCount - i]

TrailNewestFirstWitness ==
    /\ enabled
    /\ renderCount > trailLength
    /\ Slot(trail, trailLength - 1) = samples[renderCount - trailLength + 1]
    /\ Slot(trail, trailLength - 1) # Slot(trail, trailLength - 2)
    /\ Slot(trail, 0) # Slot(trail, 1)

\* C4: unfilled slots hold the sentinel (0, 0, -100) and never the origin:
\* after n updates the slots n .. trailLength - 1 hold the sentinel and the
\* slots below n hold a sample, which is not the sentinel.
TrailSentinelTail ==
    enabled =>
        \A i \in 0..(trailLength - 1) :
            /\ i >= renderCount => Slot(trail, i) = Sentinel
            /\ i < renderCount => Slot(trail, i) # Sentinel
            /\ i >= renderCount => Slot(trail, i) # << 0, 0, 0 >>

TrailSentinelTailWitness ==
    /\ enabled
    /\ renderCount = trailLength \div 2
    /\ Slot(trail, renderCount - 1) # Sentinel
    /\ Slot(trail, renderCount) = Sentinel
    /\ Slot(trail, trailLength - 1) = Sentinel

\* C5: a slot that holds the sentinel lies outside the view frustum of the
\* camera, so that it is not drawn.
SentinelOutsideFrustum ==
    enabled =>
        \A i \in 0..(trailLength - 1) :
            Slot(trail, i) = Sentinel => ~InFrustum(camera, Slot(trail, i))

\* C6: with the pointer resting at (0, 0), once update() has run trailLength
\* times all slots hold the same point and none holds the sentinel.
TrailConvergesWhenHeld ==
    (enabled /\ renderCount >= trailLength) =>
        \A i \in 0..(trailLength - 1) :
            /\ Slot(trail, i) = Slot(trail, 0)
            /\ Slot(trail, i) # Sentinel

TrailConvergesWitness ==
    /\ enabled
    /\ renderCount = trailLength
    /\ Slot(trail, trailLength - 1) = << 0, 0, TrailPlaneZ >>

\* ------------------------------------------------------------------------
\* The velocity uniform
\* ------------------------------------------------------------------------

\* v after k products by 0.95, each rounded as the double product is
RECURSIVE DecayTimes(_, _)
DecayTimes(v, k) ==
    IF k = 0 THEN v ELSE DecayTimes(Sign(v) * ((19 * Abs(v) + 9) \div 20), k - 1)

\* C7 as stated: every update() multiplies the velocity uniform by exactly
\* 0.95 (so that it is v0 * 0.95^k after k updates), and a velocity other
\* than 0 gets strictly smaller in magnitude and never becomes 0.
VelocityExactDecay ==
    [][ UpdateStep =>
          /\ 20 * bgUniforms'.velocity = 19 * bgUniforms.velocity
          /\ bgUniforms.velocity # 0 =>
                /\ Abs(bgUniforms'.velocity) < Abs(bgUniforms.velocity)
                /\ bgUniforms'.velocity # 0 ]_vars

\* C7 as amended: after k updates since setVelocity(v0) the uniform is v0
\* multiplied k times by 0.95, each product rounded to the nearest double;
\* an update never makes its magnitude larger, makes it strictly smaller
\* while it is above 9 * 2^-1074, and never makes a velocity other than 0
\* become 0 or change sign.
VelocityRoundedDecay ==
    [][ UpdateStep =>
          /\ bgUniforms'.velocity =
                DecayTimes(lastVelocityArg, updatesSinceVelocity')
          /\ Abs(bgUniforms'.velocity) <= Abs(bgUniforms.velocity)
          /\ Abs(bgUniforms.velocity) > 9 =>
                Abs(bgUniforms'.velocity) < Abs(bgUniforms.velocity)
          /\ Sign(bgUniforms'.velocity) = Sign(bgUniforms.velocity) ]_vars

VelocityDecayWitness ==
    /\ enabled
    /\ updatesSinceVelocity >= 3
    /\ lastVelocityArg = 40
    /\ bgUniforms.velocity = DecayTimes(40, updatesSinceVelocity)
    /\ bgUniforms.velocity < 36

\* ------------------------------------------------------------------------
\* The input setters
\* ------------------------------------------------------------------------

\* C8: on an enabled Scene the stored scroll progress and the scroll
\* uniform lie in [0, 1] in every reachable state, whatever arguments
\* (negative, above 1) setScroll was given.
ScrollWithinUnitInterval ==
    enabled => /\ 0 <= scrollProgress /\ scrollProgress <= Unit
               /\ 0 <= bgUniforms.scroll /\ bgUniforms.scroll <= Unit

ScrollClampedWitness ==
    /\ enabled
    /\ lastScrollArg > Unit
    /\ scrollProgress = Unit
    /\ bgUniforms.scroll = Unit

\* C9: setScroll is lazy: a call changes the stored progress and nothing
\* else (uniforms, meshes, particles, trail, render count, render context
\* stay as they are); the scroll uniform takes the stored value in the
\* next update().
ScrollAppliedLazily ==
    [][ /\ (lastScrollArg' # lastScrollArg \/ scrollProgress' # scrollProgress)
           => UNCHANGED << bgUniforms, geometries, particles, trail,
                           trailVersion, renderCount, clock, contextVars,
                           mouseX, mouseY >>
        /\ UpdateStep => bgUniforms'.scroll = scrollProgress ]_vars

ScrollLazyWitness ==
    /\ enabled
    /\ renderCount >= 1
    /\ lastScrollArg = 250
    /\ scrollProgress = 250
    /\ bgUniforms.scroll # 250

\* C10: only the latest value of each input survives.  An update() uses the
\* last value given to each setter: the scroll uniform is the clamp of the
\* last progress; the mouse uniform, the parallax and the trail take the
\* last (x, y), unclamped; the velocity uniform, in the first update()
\* after a setVelocity, is the product of the last velocity by 0.95.  No
\* setter changes what another setter stored.
LatestInputSurvives ==
    [][ /\ UpdateStep =>
              /\ bgUniforms'.scroll = Clamp01(lastScrollArg)
              /\ bgUniforms'.mouse = lastMouseArg
              /\ Slot(trail', 0) =
                    Stored(_mouseToWorld(camera, lastMouseArg[1],
                                        lastMouseArg[2], TrailPlaneZ))
              /\ \A i \in DOMAIN geometries :
                    geometries'[i].position[1] =
                        geometries[i].basePosition[1]
                            + Mul(lastMouseArg[1],
                                  ParallaxStrength(geometries[i].basePosition[3]))
              /\ \A i \in DOMAIN geometries :
                    geometries'[i].position[2] =
                        geometries[i].basePosition[2]
                            + Mul(lastMouseArg[2],
                                  ParallaxStrength(geometries[i].basePosition[3]))
                            + Bob(clock'.elapsedTime, geometries[i].speed)
              /\ updatesSinceVelocity = 0 =>
                    bgUniforms'.velocity = DecayVelocity(lastVelocityArg)
        /\ lastScrollArg' # lastScrollArg =>
              UNCHANGED << mouseX, mouseY, bgUniforms >>
        /\ lastMouseArg' # lastMouseArg =>
              UNCHANGED << scrollProgress, bgUniforms >>
        /\ lastVelocityArg' # lastVelocityArg =>
              UNCHANGED << scrollProgress, mouseX, mouseY >> ]_vars

LatestInputWitness ==
    /\ enabled
    /\ renderCount = 1
    /\ lastScrollArg = 1500
    /\ lastMouseArg = << -2000, 250 >>
    /\ lastVelocityArg = -20
    /\ bgUniforms.scroll = Unit
    /\ bgUniforms.mouse = << -2000, 250 >>
    /\ bgUniforms.velocity = -19

\* ------------------------------------------------------------------------
\* The Scene without a canvas
\* ------------------------------------------------------------------------

\* the public methods of the class
SceneMethods == { "update", "resize", "setScroll", "setMouse", "setVelocity" }

\* the fields that hold what a constructor with a canvas allocates
RenderResources ==
    { "renderer", "camera", "scene", "bgUniforms", "bgMesh", "particles",
      "trailGeometry", "trailMesh", "composer", "bloomPass" }

\* C11: a Scene constructed without a canvas stays disabled for ever:
\* enabled is false and stays false under every sequence of update, resize,
\* setScroll, setMouse and setVelocity; every such call returns without an
\* exception; no renderer, camera, geometry or composer is ever allocated
\* and no frame is ever rendered.
DisabledForEver ==
    /\ []((proto = "Scene" /\ ~enabled) =>
            /\ ~thrown
            /\ ownFields \cap RenderResources = {}
            /\ geomAllocated = 0
            /\ renderCount = 0
            /\ trailVersion = 0)
    /\ [][~enabled => ~enabled']_vars

DisabledForEverWitness ==
    /\ proto = "Scene"
    /\ ~enabled
    /\ called = SceneMethods
    /\ Len(viewports) >= 1
    /\ lastVelocityArg # 0
    /\ ~thrown
    /\ renderCount = 0

\* the state of the Scene object: every field of it and what hangs on them
objectVars == << enabled, ownFields, inputVars, contextVars, bgUniforms, clock,
                 geometries, particles, trail, trailVersion >>

\* C12: on a disabled Scene every public method is a no-op: update, resize,
\* setScroll, setMouse and setVelocity each leave the whole state of the
\* object as it was before the call.
DisabledCallsChangeNothing ==
    [][ (proto = "Scene" /\ ~enabled) => UNCHANGED objectVars ]_vars

\* ------------------------------------------------------------------------
\* The object the page hands to its collaborators
\* ------------------------------------------------------------------------

\* the stub startExperience puts in place of the Scene when the constructor
\* throws: an object literal with four empty methods
StubMethods == { "setMouse", "setVelocity", "update", "resize" }

\* new Scene(canvas) threw (no WebGL, Three.js not loaded): scene is the stub
InitStub ==
    /\ enabled = FALSE
    /\ ownFields = StubMethods
    /\ proto = "Object"
    /\ Unallocated

\* what the lookup of scene.m finds: an own property, or a method of the
\* prototype
Provides(m) == m \in ownFields \/ (proto = "Scene" /\ m \in SceneMethods)

callVars == << enabled, ownFields, inputVars, contextVars, bgUniforms,
               frameVars, lastScrollArg, lastMouseArg, lastVelocityArg,
               updatesSinceVelocity, proto, viewports,
                    pageVars >>

\* a call of a method of the stub: the body is empty
StubCall(m) ==
    /\ called' = called \cup { m }
    /\ thrown' = FALSE
    /\ UNCHANGED callVars

\* scene.m(...) where scene.m is undefined: a TypeError leaves the callback
MissingCall(m) ==
    /\ called' = called \cup { m }
    /\ thrown' = TRUE
    /\ UNCHANGED callVars

\* scene.m(...) made by a collaborator; body is what Scene.prototype.m does
Invoke(m, body) ==
    IF ~Provides(m) THEN MissingCall(m)
    ELSE IF proto = "Scene" THEN body
    ELSE StubCall(m)

\* the frame loop, the resize listener and the ScrollManager call scene.m
NextBootstrap ==
    \/ \E progress \in ScrollArgs : Invoke("setScroll", setScroll(progress))
    \/ \E m \in MouseArgs : Invoke("setMouse", setMouse(m[1], m[2]))
    \/ \E v \in VelocityArgs : Invoke("setVelocity", setVelocity(v))
    \/ /\ renderCount < MaxFrames
       /\ \E dt \in FrameDeltas : Invoke("update", update(dt))
    \/ /\ Len(viewports) <= MaxResizes
       /\ \E vp \in Viewports : Invoke("resize", resize(vp[1], vp[2]))

InitBootstrap == Init \/ (InitStub /\ InitHistory /\ InitPage)

SpecBootstrap == InitBootstrap /\ [][NextBootstrap]_vars

\* C13: whichever object startExperience ends up with, the Scene or the
\* stub, it provides update, resize, setScroll, setMouse and setVelocity,
\* and no call made by the frame loop, the resize listener or the
\* ScrollManager ends in an exception.
CapabilityComplete ==
    /\ \A m \in SceneMethods : Provides(m)
    /\ ~thrown

\* ------------------------------------------------------------------------
\* Resizing
\* ------------------------------------------------------------------------

\* the size of the viewport now: the last argument of resize, or the window
\* size the constructor read
Viewport == viewports[Len(viewports)]

\* a step of resize() on an enabled Scene
ResizeStep == enabled /\ Len(viewports') = Len(viewports) + 1

\* C14: every resize on an enabled Scene disposes the geometry the
\* background mesh holds and puts a newly allocated one in its place (a
\* replacement, not a change in place); in every state exactly one
\* background geometry is live (allocated minus disposed = 1), and the
\* geometry on the mesh, the one a frame is rendered with, is never a
\* disposed one.
GeometryReplacedOnResize ==
    /\ [](enabled =>
            /\ geomAllocated - Cardinality(geomDisposed) = 1
            /\ bgGeometry.id \notin geomDisposed
            /\ bgGeometry.id \in 1..geomAllocated)
    /\ [][ (ResizeStep =>
              /\ geomDisposed' = geomDisposed \cup { bgGeometry.id }
              /\ geomAllocated' = geomAllocated + 1
              /\ bgGeometry'.id \notin 1..geomAllocated)
           /\ (~ResizeStep => UNCHANGED << bgGeometry, geomDisposed,
                                           geomAllocated >>) ]_vars

GeometryReplacedWitness ==
    /\ enabled
    /\ geomAllocated = 4
    /\ geomDisposed = { 1, 2, 3 }
    /\ bgGeometry.id = 4
    /\ renderCount >= 1

\* C15: the size of the background plane after resize(w, h) depends on
\* (w, h) alone, not on the resizes and frames before: it is what the
\* constructor computes for a window of that size, so a resize to another
\* size and back gives the width and height of the first time again.
BackgroundSizeFromViewport ==
    enabled =>
        /\ bgGeometry.width =
              NewPlaneGeometry(bgGeometry.id, Viewport[1], Viewport[2]).width
        /\ bgGeometry.height =
              NewPlaneGeometry(bgGeometry.id, Viewport[1], Viewport[2]).height
        /\ \A env \in Environments :
              Viewport = env.size =>
                  /\ bgGeometry.width =
                        NewPlaneGeometry(1, env.size[1], env.size[2]).width
                  /\ bgGeometry.height =
                        NewPlaneGeometry(1, env.size[1], env.size[2]).height

BackgroundRoundTripWitness ==
    /\ enabled
    /\ Len(viewports) = 4
    /\ viewports[2] # viewports[1]
    /\ viewports[3] # viewports[2]
    /\ viewports[4] = viewports[2]
    /\ renderCount >= 1
    /\ bgGeometry.width =
          NewPlaneGeometry(1, viewports[2][1], viewports[2][2]).width
    /\ bgGeometry.width #
          NewPlaneGeometry(1, viewports[3][1], viewports[3][2]).width

\* C16: what depends on the viewport stays in step: after construction and
\* after every resize(w, h), in every state an update() can run in, the
\* aspect of the camera is w / h and the renderer, the composer with its
\* passes and the resolution uniform all have the size (w, h) of the most
\* recent resize (or of the window at construction).
ViewportInStep ==
    enabled =>
        /\ camera.aspect = Aspect(Viewport[1], Viewport[2])
        /\ rendererSize = Viewport
        /\ composerSize = Viewport
        /\ bgUniforms.resolution = Viewport

ViewportInStepWitness ==
    /\ enabled
    /\ Len(viewports) >= 3
    /\ Viewport # viewports[1]
    /\ renderCount >= 1
    /\ renderCount < MaxFrames
    /\ composerSize = Viewport
    /\ bgUniforms.resolution = Viewport
    /\ camera.aspect # Aspect(viewports[1][1], viewports[1][2])

\* C17: in every state of an enabled Scene the background plane covers the
\* frustum of the camera at the depth of the plane, 80 from the camera,
\* with a margin of 20%: its height is 1.2 times the height of the frustum
\* there and its width 1.2 times that height times the aspect of the
\* camera, the field of view and the distance that sized the plane being
\* those of the camera (45 degrees) and of the plane from the camera.
PlaneCoversFrustum ==
    enabled =>
        LET dist == camera.position[3] - BgPlaneZ
            frustumHeight == Mul(2 * TanHalf(camera.fov), dist)
            frustumWidth == Mul(frustumHeight, camera.aspect)
        IN  /\ camera.fov = BgFov
            /\ camera.fov = 45
            /\ dist = BgDist
            /\ dist = 80 * Unit
            /\ bgGeometry.height = Mul(frustumHeight, 1200)
            /\ bgGeometry.width = Mul(frustumWidth, 1200)
            /\ bgGeometry.height > frustumHeight
            /\ bgGeometry.width > frustumWidth

PlaneCoversFrustumWitness ==
    /\ enabled
    /\ Len(viewports) >= 2
    /\ camera.aspect # Aspect(viewports[1][1], viewports[1][2])
    /\ renderCount >= 1
    /\ bgGeometry.height = 79488
    /\ bgGeometry.width = Mul(79488, camera.aspect)

\* ------------------------------------------------------------------------
\* The decorative objects: parallax, position, rotation
\* ------------------------------------------------------------------------

\* the parallax displacement update() gave mesh number i: its position less
\* its base position, the bob taken off the y component
ParallaxOffset(i) ==
    << geometries[i].position[1] - geometries[i].basePosition[1],
       geometries[i].position[2] - geometries[i].basePosition[2]
           - Bob(clock.elapsedTime, geometries[i].speed) >>

\* the square of the length of a displacement
SquaredLength(d) == d[1] * d[1] + d[2] * d[2]

\* mesh i is nearer than mesh j, both nearer than the maximum depth
Nearer(i, j) ==
    /\ Abs(geometries[i].basePosition[3]) < Abs(geometries[j].basePosition[3])
    /\ Abs(geometries[j].basePosition[3]) < MaxDepth

\* C18 as stated: for two objects with base depths |z1| < |z2| < 25 and any
\* pointer input, the parallax displacement update() gives object 1 is
\* strictly larger in magnitude than the one it gives object 2.
ParallaxStrictlyLargerWhenNearer ==
    (enabled /\ renderCount >= 1) =>
        \A i, j \in DOMAIN geometries :
            Nearer(i, j) =>
                SquaredLength(ParallaxOffset(i)) > SquaredLength(ParallaxOffset(j))

\* C18 as amended: for two objects with base depths |z1| < |z2| < 25 the
\* parallax displacement of object 1 is never smaller in magnitude than
\* that of object 2, on each axis and as a whole; it is strictly larger on
\* every axis where the pointer is not 0, and both displacements are 0 when
\* the pointer is at (0, 0).
ParallaxLargerWhenNearer ==
    (enabled /\ renderCount >= 1) =>
        \A i, j \in DOMAIN geometries :
            Nearer(i, j) =>
                LET di == ParallaxOffset(i)
                    dj == ParallaxOffset(j)
                    pointer == bgUniforms.mouse
                IN  /\ \A a \in 1..2 :
                          /\ Abs(di[a]) >= Abs(dj[a])
                          /\ pointer[a] # 0 => Abs(di[a]) > Abs(dj[a])
                          /\ pointer[a] = 0 => di[a] = 0 /\ dj[a] = 0
                    /\ SquaredLength(di) >= SquaredLength(dj)
                    /\ pointer # << 0, 0 >> =>
                          SquaredLength(di) > SquaredLength(dj)

ParallaxLargerWitness ==
    /\ enabled
    /\ renderCount >= 1
    /\ bgUniforms.mouse = << 500, -1000 >>
    /\ Nearer(3, 2)
    /\ ParallaxOffset(3) = << 208, -416 >>
    /\ ParallaxOffset(2) = << 80, -160 >>

\* C19: the position of every decorative object is computed anew from its
\* base position in every update and never drifts: with (x, y) the pointer
\* the last update used, position.x = base.x + x * 0.8 * (1 - |base.z| / 25),
\* position.y = base.y + y * 0.8 * (1 - |base.z| / 25) + bob with
\* |bob| <= 0.15, position.z = base.z; the base position stays what
\* _initWireframes stored; the position before the update plays no part.
PositionFromBase ==
    enabled =>
        \A i \in DOMAIN geometries :
            LET mesh == geometries[i]
                base == mesh.basePosition
                pointer == bgUniforms.mouse
                strength == Mul(800, Unit - RoundDiv(Abs(base[3]) * Unit, 25 * Unit))
                bob == mesh.position[2] - base[2] - Mul(pointer[2], strength)
            IN  /\ mesh.position[1] = base[1] + Mul(pointer[1], strength)
                /\ Abs(bob) <= 150
                /\ renderCount >= 1 => bob = Bob(clock.elapsedTime, mesh.speed)
                /\ mesh.position[3] = base[3]
                /\ base = WireframeDefs[i].pos

PositionFromBaseWitness ==
    /\ enabled
    /\ renderCount = MaxLongFrames
    /\ bgUniforms.mouse = << -1000, 0 >>
    /\ geometries[1].position[1] = -10320
    /\ geometries[1].position[2] # geometries[1].basePosition[2]
    /\ geometries[1].position[3] = -15000

\* what one update() adds to the rotation of mesh number i: 0.001 * speed,
\* 0.0015 * speed and 0.0005 * speed rad, in steps of 1e-5 rad
RotationRate(i) ==
    << RoundDiv(100 * geometries[i].speed, Unit),
       RoundDiv(150 * geometries[i].speed, Unit),
       RoundDiv(50 * geometries[i].speed, Unit) >>

\* the rotation _initWireframes gave mesh number i (particles.positions
\* names the draws of Math.random() the constructor made)
InitialRotation(i) == InitWireframes(particles.positions)[i].rotation

\* C20: the rotation of every decorative object only accumulates: every
\* update() adds exactly 0.001 * speed, 0.0015 * speed and 0.0005 * speed
\* to rotation x, y and z, so after n updates every axis is its initial
\* value plus n times its rate; no other call (resize, a setter) changes a
\* rotation, and none ever resets or lowers one.
RotationAccumulates ==
    /\ [](enabled =>
            \A i \in DOMAIN geometries : \A a \in 1..3 :
                /\ RotationRate(i)[a] > 0
                /\ geometries[i].rotation[a] =
                      InitialRotation(i)[a] + renderCount * RotationRate(i)[a])
    /\ [][ enabled =>
             \A i \in DOMAIN geometries : \A a \in 1..3 :
                 /\ UpdateStep =>
                       geometries'[i].rotation[a] =
                           geometries[i].rotation[a] + RotationRate(i)[a]
                 /\ ~UpdateStep =>
                       geometries'[i].rotation[a] = geometries[i].rotation[a]
                 /\ geometries'[i].rotation[a] >= geometries[i].rotation[a] ]_vars

RotationAccumulatesWitness ==
    /\ enabled
    /\ renderCount = 2
    /\ Len(viewports) > 1
    /\ lastScrollArg # 0
    /\ lastMouseArg # << 0, 0 >>
    /\ lastVelocityArg # 0
    /\ InitialRotation(2) = << 628318, 314159, 0 >>
    /\ geometries[2].rotation = << 628458, 314369, 70 >>

\* ------------------------------------------------------------------------
\* The frame
\* ------------------------------------------------------------------------

\* a step of update() on an enabled Scene, told by the clock it reads
FrameStep == enabled /\ clock' # clock

\* one shift of the trail: every slot but the head holds what its
\* predecessor held
ShiftedOnce(before, after) ==
    \A k \in 1 .. trailLength - 1 : Slot(after, k) = Slot(before, k - 1)

\* C21: every update() on an enabled Scene is exactly one frame in a fixed
\* order: the uniforms are written (time, scroll, mouse, one decay of the
\* velocity), each of the 5 wireframe objects takes one rotation and
\* position step, the particle field is rotated, the trail is shifted
\* exactly once, and last exactly one render is submitted; the render draws
\* the uniforms and the trail written by that same frame, never those of
\* the frame before; so two calls perform every step twice.
OneFrameInOrder ==
    [][ FrameStep =>
          /\ bgUniforms'.time = clock'.elapsedTime
          /\ bgUniforms'.scroll = scrollProgress
          /\ bgUniforms'.mouse = << mouseX, mouseY >>
          /\ bgUniforms'.velocity = DecayVelocity(bgUniforms.velocity)
          /\ Len(geometries') = 5
          /\ \A i \in DOMAIN geometries :
                geometries'[i] = AnimateMesh(geometries[i], mouseX, mouseY,
                                             clock'.elapsedTime)
          /\ particles' = RotateParticles(particles, clock'.elapsedTime)
          /\ trailVersion' = trailVersion + 1
          /\ ShiftedOnce(trail, trail')
          /\ Len(samples') = Len(samples) + 1
          /\ renderCount' = renderCount + 1
          /\ rendered'.order = FrameOrder
          /\ rendered'.time = bgUniforms'.time
          /\ rendered'.scroll = bgUniforms'.scroll
          /\ rendered'.mouse = bgUniforms'.mouse
          /\ rendered'.trailVersion = trailVersion'
          /\ rendered'.trailHead = Slot(trail', 0)
          /\ renderCount' = trailVersion' ]_vars

\* two frames were run, with the pointer moved between them, and the second
\* render drew the second frame's trail
OneFrameInOrderWitness ==
    /\ enabled
    /\ renderCount = 2
    /\ trailVersion = 2
    /\ Len(samples) = 2
    /\ rendered.order = FrameOrder
    /\ rendered.trailVersion = 2
    /\ rendered.trailHead = Slot(trail, 0)
    /\ rendered.trailHead # Slot(trail, 1)

\* C22: the render context is changed by resize alone: update(), setScroll,
\* setMouse and setVelocity leave the camera's position, field of view,
\* aspect ratio and clipping planes, the size of the renderer and of the
\* composer, the resolution uniform and the background geometry as they
\* were.
RenderContextOnlyByResize ==
    [][ ~ResizeStep =>
          /\ camera'.position = camera.position
          /\ camera'.fov = camera.fov
          /\ camera'.aspect = camera.aspect
          /\ camera'.near = camera.near
          /\ camera'.far = camera.far
          /\ rendererSize' = rendererSize
          /\ composerSize' = composerSize
          /\ bgUniforms'.resolution = bgUniforms.resolution
          /\ bgGeometry' = bgGeometry
          /\ geomAllocated' = geomAllocated
          /\ geomDisposed' = geomDisposed ]_vars

\* after a resize to another aspect ratio, a pointer move, a scroll, a
\* velocity sample and two frames, the context is still the one the resize
\* set
RenderContextWitness ==
    /\ enabled
    /\ Len(viewports) = 2
    /\ viewports[2] # viewports[1]
    /\ renderCount = 2
    /\ { "setScroll", "setMouse", "setVelocity", "update", "resize" }
          \subseteq called
    /\ rendererSize = viewports[2]
    /\ camera.aspect = Aspect(viewports[2][1], viewports[2][2])

\* C23: setVelocity overwrites and never accumulates: right after
\* setVelocity(v) on an enabled Scene, before any further update, the stored
\* velocity is exactly v, whatever value (fresh or partly decayed) was stored
\* before and however many setVelocity calls came since the last update.
VelocityOverwritten ==
    (enabled /\ "setVelocity" \in called /\ updatesSinceVelocity = 0)
        => bgUniforms.velocity = lastVelocityArg

\* frames have run on whatever was stored, and a sample that arrived after
\* them is what the uniform holds
VelocityOverwrittenWitness ==
    /\ enabled
    /\ renderCount >= 2
    /\ "setVelocity" \in called
    /\ updatesSinceVelocity = 0
    /\ lastVelocityArg = -20
    /\ bgUniforms.velocity = -20

\* C24: the particle field is static: its ParticleCount point positions are
\* those drawn at construction and no update, resize or setter changes or
\* re-draws them; an update changes the rotation of the field only, to
\* rotation.y = elapsed * 0.01 and rotation.x = elapsed * 0.005, a function
\* of the elapsed time alone; no other step turns the field.
ParticlesStatic ==
    [][ /\ particles'.positions = particles.positions
        /\ particles'.count = particles.count
        /\ enabled => particles'.count = ParticleCount
        /\ FrameStep =>
              particles'.rotation = << RoundDiv(clock'.elapsedTime, 2),
                                       clock'.elapsedTime, 0 >>
        /\ ~FrameStep => particles'.rotation = particles.rotation ]_vars

\* two frames ran a second apart, with a pointer move, a scroll and a resize
\* among them: the field has turned by what the clock says and holds the
\* positions it was built with
ParticlesStaticWitness ==
    /\ enabled
    /\ renderCount = 2
    /\ { "setMouse", "setScroll", "resize" } \subseteq called
    /\ clock.elapsedTime = 1000
    /\ particles.rotation = << 500, 1000, 0 >>
    /\ particles = RotateParticles(InitParticles(particles.positions),
                                   clock.elapsedTime)

\* ------------------------------------------------------------------------
\* Degenerate viewports
\* ------------------------------------------------------------------------

\* C25: the projector never lets a non-finite value into the trail: after
\* any sequence of setMouse, resize (a resize to height 0 or width 0
\* included) and update calls, every coordinate of every trail slot is a
\* finite number, and once a frame has run slot 0 lies on the plane
\* z = TrailPlaneZ (when the ray cannot meet the plane, the previous valid
\* sample is kept).
TrailAlwaysFinite ==
    enabled =>
        /\ \A k \in 1 .. Len(trail) : IsFinite(trail[k])
        /\ renderCount > 0 => Slot(trail, 0)[3] = TrailPlaneZ

\* ------------------------------------------------------------------------
\* TextScramble
\* ------------------------------------------------------------------------

\* everything the Scene owns
sceneVars == << enabled, ownFields, inputVars, contextVars, bgUniforms,
                frameVars, lastScrollArg, lastMouseArg, lastVelocityArg,
                updatesSinceVelocity, proto, thrown, called, viewports >>

\* el.innerText: the characters of the text nodes, those inside the
\* scramble spans included
InnerText(el) == [ i \in 1 .. Len(el) |-> el[i].c ]

\* text[i] || ''
CharAt(text, i) == IF i <= Len(text) THEN text[i] ELSE ""

\* this._randomChar(): of the characters of this.chars the one followed here
_randomChar == "#"

\* the place, from i on, of the piece of markup that holds the next ">":
\* a ">" of the text, or the opening tag of a scramble span; 0 if none
RECURSIVE TagEnd(_, _)
TagEnd(out, i) ==
    IF i > Len(out) THEN 0
    ELSE IF out[i].span \/ out[i].c = ">" THEN i
    ELSE TagEnd(out, i + 1)

\* the HTML parser on the string assigned to el.innerHTML, from piece i on.
\* A scramble span becomes a span element.  A "<" followed by a letter opens
\* a tag: the characters up to the next ">" are its name and attributes and
\* are no text; if that ">" is the one of a span's opening tag, the span's
\* character is left as plain text and the unmatched </span> is ignored; if
\* the string ends inside the tag, the tag is dropped.  Any other character
\* is text.
RECURSIVE ParseFrom(_, _)
ParseFrom(out, i) ==
    IF i > Len(out) THEN << >>
    ELSE IF ~out[i].span /\ out[i].c = "<" /\ i < Len(out)
              /\ ~out[i + 1].span /\ out[i + 1].c \in Letters
    THEN LET j == TagEnd(out, i + 1)
         IN  IF j = 0 THEN << >>
             ELSE IF out[j].span
             THEN << [ c |-> out[j].c, span |-> FALSE ] >>
                      \o ParseFrom(out, j + 1)
             ELSE ParseFrom(out, j + 1)
    ELSE << out[i] >> \o ParseFrom(out, i + 1)

\* el.innerHTML = output
ParseHTML(out) == ParseFrom(out, 1)

\* the queue built by setText from the old and the new text and the draws
Queue(oldText, newText, draw) ==
    [ i \in 1 .. Max(Len(oldText), Len(newText)) |->
        LET d == draw[2 - (i % 2)]
        IN  [ from |-> CharAt(oldText, i), to |-> CharAt(newText, i),
              start |-> d[1], end |-> d[1] + d[2] + 10, char |-> "" ] ]

\* the queue after a step at this frame: a character inside its window has
\* a scramble character
Scrambled(queue, frame) ==
    [ i \in DOMAIN queue |->
        IF frame < queue[i].end /\ frame >= queue[i].start
        THEN [ queue[i] EXCEPT !.char = _randomChar ]
        ELSE queue[i] ]

\* the string a step builds, as its pieces: plain characters and spans
Output(queue, frame) ==
    LET piece(q) ==
            IF frame >= q.end THEN [ c |-> q.to, span |-> FALSE ]
            ELSE IF frame >= q.start THEN [ c |-> q.char, span |-> TRUE ]
            ELSE [ c |-> q.from, span |-> FALSE ]
        all == [ i \in DOMAIN queue |-> piece(queue[i]) ]
    IN  SelectSeq(all, LAMBDA t : t.c # "")

\* how many characters have reached their end frame
Complete(queue, frame) ==
    Cardinality({ i \in DOMAIN queue : frame >= queue[i].end })

\* the animations that wrote to el, in order, runs of one writer as one
Wrote(writers, a) ==
    IF writers # << >> /\ writers[Len(writers)] = a
    THEN writers ELSE Append(writers, a)

\* setText(newText), the draws of its queue given
setText(newText, draw) ==
    LET a == Len(scramble.anims) + 1
        handle == scramble.nextHandle
        cancelled == IF scramble._frameId # 0
                     THEN { cb \in scramble.callbacks :
                              cb.handle # scramble._frameId }
                     ELSE scramble.callbacks
    IN  /\ Len(scramble.anims) < MaxSetTexts
        /\ scramble' =
              [ scramble EXCEPT
                  !.anims = Append(@, [ newText |-> newText,
                                        queue |-> Queue(InnerText(scramble.el),
                                                        newText, draw),
                                        frame |-> 0, resolved |-> 0 ]),
                  !.callbacks = cancelled
                                  \cup { [ handle |-> handle, anim |-> a ] },
                  !._frameId = handle,
                  !.nextHandle = handle + 1 ]
        /\ UNCHANGED << sceneVars, audio, page >>

\* the browser runs the frame callback cb: the step closure of animation
\* cb.anim
step(cb) ==
    LET a == cb.anim
        anim == scramble.anims[a]
        queue == Scrambled(anim.queue, anim.frame)
        done == Complete(queue, anim.frame) = Len(queue)
        handle == scramble.nextHandle
        rest == scramble.callbacks \ { cb }
    IN  /\ cb \in scramble.callbacks
        /\ scramble' =
              [ scramble EXCEPT
                  !.el = ParseHTML(Output(queue, anim.frame)),
                  !.writers = Wrote(@, a),
                  !.anims[a] = [ anim EXCEPT
                                   !.queue = queue,
                                   !.frame = @ + 1,
                                   !.resolved = IF done THEN @ + 1 ELSE @ ],
                  !.callbacks = IF done THEN rest
                                ELSE rest \cup { [ handle |-> handle,
                                                   anim |-> a ] },
                  !._frameId = IF done THEN @ ELSE handle,
                  !.nextHandle = IF done THEN @ ELSE handle + 1 ]
        /\ UNCHANGED << sceneVars, audio, page >>

\* a TextScramble on an element with some text; setText is called, perhaps
\* again before the animation is over, and the browser runs the frames
InitScramble ==
    /\ SceneAside
    /\ \E old \in OldTexts : scramble = IdleScramble(old)
    /\ audio = IdleAudio
    /\ page = IdlePage(FullEnvironment)

NextScramble ==
    \/ \E newText \in Texts, draw \in Draws : setText(newText, draw)
    \/ \E cb \in scramble.callbacks : step(cb)

SpecScramble == InitScramble /\ [][NextScramble]_vars

\* the animation started by the latest setText
Latest == scramble.anims[Len(scramble.anims)]

\* no frame callback is waiting
Settled == scramble.callbacks = {}

\* C26: a setText(newText) that no later setText supersedes terminates: its
\* step runs at most 69 times (no end frame is above 68), its promise is
\* resolved at most once, and when no frame is waiting any more it has been
\* resolved exactly once and the element holds exactly newText, with no
\* scramble span left; for an empty old and new text the first step
\* resolves it.
ScrambleSettles ==
    scramble.anims # << >> =>
        /\ Latest.frame <= 69
        /\ Latest.resolved <= 1
        /\ \A i \in DOMAIN Latest.queue : Latest.queue[i].end <= 68
        /\ (Latest.queue = << >> /\ Latest.frame >= 1) => Latest.resolved = 1
        /\ Settled =>
              /\ Latest.resolved = 1
              /\ InnerText(scramble.el) = Latest.newText
              /\ \A i \in DOMAIN scramble.el : ~scramble.el[i].span

\* C27: at most one scramble animation of a TextScramble is in flight: when
\* setText(b) is called before the animation of setText(a) is over, the
\* frame the first animation was waiting for is cancelled and its step never
\* runs again (the only callback that waits is the one in _frameId, and it
\* belongs to the latest animation), the two animations never take turns
\* writing to the element, and in the end the element holds b.
OneAnimationInFlight ==
    /\ Cardinality(scramble.callbacks) <= 1
    /\ \A cb \in scramble.callbacks :
          /\ cb.anim = Len(scramble.anims)
          /\ cb.handle = scramble._frameId
    /\ \A i, j \in DOMAIN scramble.writers :
          i < j => scramble.writers[i] < scramble.writers[j]
    /\ (/\ Len(scramble.anims) = 2
        /\ scramble.anims[1].resolved = 0
        /\ Settled)
          => InnerText(scramble.el) = scramble.anims[2].newText

\* ------------------------------------------------------------------------
\* AudioManager
\* ------------------------------------------------------------------------

\* window.AudioContext || window.webkitAudioContext is there
AudioCtxSupported == TRUE

\* init(): a new context, its master gain, and five started sources, all
\* named by the number of the context
init(a) ==
    IF ~AudioCtxSupported THEN a
    ELSE [ a EXCEPT !.ctx = a.created + 1, !.masterGain = a.created + 1,
                    !.sources = a.created + 1, !.created = a.created + 1,
                    !.gainTarget = 0 ]

\* _stopAllSources(): every source stopped, the list emptied
_stopAllSources(a) == [ a EXCEPT !.sources = 0 ]

\* the AudioManager after start()
Started(a) ==
    IF a.playing THEN a
    ELSE LET b == IF a.ctx = 0 THEN init(a) ELSE a
         IN  IF b.ctx = 0 THEN b
             ELSE [ b EXCEPT !.gainTarget = 1, !.playing = TRUE,
                             !.buttonActive = TRUE ]

\* the AudioManager after stop(): the fade out, the teardown timer set for
\* 1600 ms later
Stopped(a) ==
    IF ~a.playing \/ a.ctx = 0 THEN a
    ELSE [ a EXCEPT !.gainTarget = 0, !.timers = @ + 1, !.playing = FALSE,
                    !.buttonActive = FALSE ]

\* the AudioManager after toggle()
Toggled(a) == IF a.playing THEN Stopped(a) ELSE Started(a)

\* the callback of the teardown timer
TornDown(a) ==
    [ _stopAllSources(a) EXCEPT !.ctx = 0, !.masterGain = 0,
                                !.timers = @ - 1 ]

\* a call of a method from outside, counted and named
AudioCall(name, after) ==
    /\ audio.calls < MaxAudioCalls
    /\ audio' = [ after EXCEPT !.calls = @ + 1, !.last = name ]
    /\ UNCHANGED << sceneVars, rendered, scramble, page >>

start == AudioCall("start", Started(audio))

stop == AudioCall("stop", Stopped(audio))

toggle == AudioCall("toggle", Toggled(audio))

\* a teardown timer set by an earlier stop() fires
_fadeTimeout ==
    /\ audio.timers > 0
    /\ audio' = [ TornDown(audio) EXCEPT !.last = "timer" ]
    /\ UNCHANGED << sceneVars, rendered, scramble, page >>

InitAudio ==
    /\ SceneAside
    /\ scramble = IdleScramble(<< >>)
    /\ audio = IdleAudio
    /\ page = IdlePage(FullEnvironment)

NextAudio == start \/ stop \/ toggle \/ _fadeTimeout

SpecAudio == InitAudio /\ [][NextAudio]_vars

\* C28: in every interleaving of start(), stop(), toggle() and the teardown
\* timers set by stop(): while playing is true the audio context and the
\* master gain exist and the sources of the graph have not been stopped; a
\* start() that follows a stop() has a live graph, also when it comes
\* before the timer of that stop() has fired.
PlayingHasGraph ==
    audio.playing =>
        /\ audio.ctx # 0
        /\ audio.masterGain = audio.ctx
        /\ audio.sources = audio.ctx

\* a step of toggle()
ToggleStep == audio'.calls = audio.calls + 1 /\ audio'.last = "toggle"

\* C29: every toggle() flips the playing flag and the 'active' class of the
\* button with it: a toggle() while playing ends not playing, one while not
\* playing ends playing, in every reachable state, so the control is never
\* stuck.
ToggleFlips ==
    [][ ToggleStep =>
          /\ audio'.playing = ~audio.playing
          /\ audio'.buttonActive = audio'.playing ]_vars

\* ------------------------------------------------------------------------
\* The loading sequence
\* ------------------------------------------------------------------------

\* new Scene(canvas) inside the try/catch of startExperience: an enabled
\* Scene, a disabled one when there is no canvas, the stub when the
\* constructor throws
SceneFor(env) ==
    CASE ~env.canvas -> "disabled"
      [] env.canvas /\ env.webgl -> "Scene"
      [] env.canvas /\ ~env.webgl -> "stub"

\* startExperience() on the page p.  The Scene is created first;
\* initRevealAnimations() and new ScrollManager() then use the global gsap
\* with no test that it is there: without it a ReferenceError ends the
\* function before the frame loop is started and the resize listener is
\* added.  With it, animate() is called once and runs the first frame, and
\* the listener is added.
StartExperience(p) ==
    LET q == [ p EXCEPT !.startCalls = @ + 1,
                        !.loadedAtStart = p.loaded,
                        !.scene = SceneFor(p.env),
                        !.scenes = @ + 1 ]
    IN  IF ~p.env.gsap
        THEN [ q EXCEPT !.pc = "failed", !.thrown = TRUE ]
        ELSE [ q EXCEPT !.pc = "started",
                        !.scrollManagers = @ + 1,
                        !.frameLoops = @ + 1,
                        !.frames = @ + 1,
                        !.resizeListeners = @ + 1 ]

\* Math.round(loadProgress.value), the value in tenths
Round(tenths) == RoundDiv(tenths, 10)

\* the module body of app.js: kickOffLoading()
kickOffLoading ==
    /\ page.pc = "module"
    /\ page' =
          IF ~page.env.gsap
          THEN StartExperience([ page EXCEPT !.loaded = page.env.loader ])
          ELSE IF ~page.env.loader \/ ~page.env.loaderParts
          THEN StartExperience(page)
          ELSE [ page EXCEPT !.pc = "tween" ]
    /\ UNCHANGED << sceneVars, rendered, scramble, audio >>

\* a tick of the tween: onUpdate, and onComplete with the last one
onUpdate ==
    /\ page.pc = "tween"
    /\ \E v \in TweenValues :
          /\ v > page.value
          /\ page' = [ page EXCEPT
                         !.value = v,
                         !.counterText = Round(v),
                         !.barWidth = Round(v),
                         !.pc = IF v = 1000 THEN "linger" ELSE @ ]
    /\ UNCHANGED << sceneVars, rendered, scramble, audio >>

\* the callback of gsap.delayedCall(0.3, ...)
onLingerOver ==
    /\ page.pc = "linger"
    /\ page' = [ page EXCEPT !.loaded = TRUE, !.pc = "fade" ]
    /\ UNCHANGED << sceneVars, rendered, scramble, audio >>

\* the callback of gsap.delayedCall(0.8, startExperience)
startExperience ==
    /\ page.pc = "fade"
    /\ page' = StartExperience(page)
    /\ UNCHANGED << sceneVars, rendered, scramble, audio >>

\* a frame requested by a running loop: animate(); what it does to the
\* Scene is the subject of SpecSweep, here the frames are counted
animate ==
    /\ page.frameLoops > 0
    /\ page.frames < MaxPageFrames
    /\ page' = [ page EXCEPT !.frames = @ + page.frameLoops ]
    /\ UNCHANGED << sceneVars, rendered, scramble, audio >>

\* a resize event of the window: every listener added is called
onResize ==
    /\ page.resizes < MaxPageResizes
    /\ page.pc \in { "started", "failed" }
    /\ page' = [ page EXCEPT !.resizes = @ + page.resizeListeners ]
    /\ UNCHANGED << sceneVars, rendered, scramble, audio >>

InitLoading ==
    /\ SceneAside
    /\ scramble = IdleScramble(<< >>)
    /\ audio = IdleAudio
    /\ \E env \in PageEnvironments : page = IdlePage(env)

NextLoading ==
    \/ kickOffLoading
    \/ onUpdate
    \/ onLingerOver
    \/ startExperience
    \/ animate
    \/ onResize

SpecLoading == InitLoading /\ [][NextLoading]_vars

\* the loading sequence has come to its end
LoadingOver == page.pc \in { "started", "failed" }

\* C30: on every path of the loading sequence (gsap missing, loader
\* elements missing, or tween, 0.3 s, 0.8 s) startExperience runs exactly
\* once: never twice, and once the sequence is over exactly one Scene, one
\* frame loop and one resize listener exist; on the normal path it has run
\* only after the loader received the 'loaded' class.
StartedExactlyOnce ==
    /\ page.startCalls <= 1
    /\ page.scenes <= 1
    /\ LoadingOver =>
          /\ page.startCalls = 1
          /\ page.scenes = 1
          /\ page.frameLoops = 1
          /\ page.resizeListeners = 1
          /\ ~page.thrown
    /\ (/\ page.startCalls = 1
        /\ page.env.gsap /\ page.env.loader /\ page.env.loaderParts)
          => page.loadedAtStart

====
